---- MODULE Spec2Model ----
(***************************************************************************)
(* The generation / validation / repair workflow of backend/models:        *)
(* workflow.py (generate and the four graph nodes funnel, write_code,      *)
(* compile_code, revise_code) and tsxvalidator/validator.py (TSXValidator).*)
(* Spec is a process serving turns; SpecValidator, SpecRetrieval and       *)
(* SpecDebugDocs call validate_tsx, search_docs and debug_docs directly;   *)
(* SpecGraph invokes the graph on any input state, SpecSessions serves     *)
(* the requests of several clients, SpecConcurrent runs two validate_tsx   *)
(* calls at the same time, SpecParse hands validate_tsx any output of the *)
(* compiler process and SpecOverlap runs two search_docs calls that        *)
(* overlap.                                                                *)
(***************************************************************************)
EXTENDS Integers, Sequences, FiniteSets, TLC

\* ------------------------------------------------------------------ bounds

\* Number of calls of generate in one behaviour.
MaxTurns == 2

\* ------------------------------------------------------- program constants

\* config["recursion_limit"]: the number of super-steps (node executions)
\* the graph runtime grants one ainvoke before it raises GraphRecursionError.
RecursionLimit == 50

\* ------------------------------------------------------------ option values

None == <<>>
Some(x) == <<x>>
IsNone(o) == o = <<>>

\* --------------------------------------------------- the external compiler

\* Source texts the text-generation service can propose (after the fences
\* are stripped).  "sample" is prompts.code_sample, the default of the code
\* field (a fenced skeleton).
Bodies == {"sample", "ok", "bad1", "bad2"}

NoFile == "<absent>"
Truncated == "<truncated>"

\* One line of compiler output: the path it starts with ("src",
\* "node_modules" or "" for free text), whether it contains "error TS",
\* whether it has the shape path(line,col): error TSnnnn: message, and the
\* parts of that shape.
OutLine(p, e, f, l, c, k, m) ==
    [path |-> p, err |-> e, fmt |-> f, line |-> l, col |-> c, code |-> k, message |-> m]

SrcError(l, c, k, m) == OutLine("src", TRUE, TRUE, l, c, k, m)
VendorError(l, c, k, m) == OutLine("node_modules", TRUE, TRUE, l, c, k, m)
BrokenSrcError == OutLine("src", TRUE, FALSE, 0, 0, "", "")
FreeText == OutLine("", FALSE, FALSE, 0, 0, "", "")

MsgMissingProp == "Property 'label' is missing in type IButton"
MsgNoExport == "Module has no exported member Heder"
MsgUnused == "'x' is declared but its value is never read."
MsgNotAssignable == "Type 'IProps' is not assignable to type 'IButton'"

\* subprocess.run of tsc on the project whose only included file is the temp
\* file: a deterministic function of the file's content.
TscRun(content) ==
    CASE content = "ok" ->
           [returncode |-> 0, stdout |-> <<>>, stderr |-> <<>>]
      [] content = "sample" ->
           [returncode |-> 0, stdout |-> <<>>, stderr |-> <<>>]
      [] content = "bad1" ->
           [returncode |-> 2,
            stdout |-> <<SrcError(1, 5, "2741", MsgMissingProp)>>,
            stderr |-> <<>>]
      [] content = "bad2" ->
           [returncode |-> 2,
            stdout |-> <<VendorError(3, 1, "2305", MsgNoExport),
                         SrcError(2, 10, "2305", MsgNoExport),
                         BrokenSrcError,
                         SrcError(9, 1, "6133", MsgUnused),
                         FreeText>>,
            stderr |-> <<>>]
      [] OTHER ->
           \* an empty or truncated file holds no module: nothing to report
           [returncode |-> 0, stdout |-> <<>>, stderr |-> <<>>]

\* ------------------------------------------------------------ TSXValidator

\* An entry of the "errors" list of a validation result: a parsed
\* diagnostic (a dict) or the text of an exception (a str).
Diagnostic(l, c, k, m) ==
    [kind |-> "diag", location |-> <<l, c>>, code |-> k, message |-> m]
ErrorText(m) ==
    [kind |-> "text", location |-> <<>>, code |-> "", message |-> m]

\* _parse_error_line: the dict of a well-formed line, None otherwise.
_parse_error_line(ln) ==
    IF ln.fmt
      THEN Some(Diagnostic(ln.line, ln.col, "TS" \o ln.code, ln.message))
      ELSE None

RECURSIVE _parse_errors(_)
\* _parse_errors: the parsed lines that contain "error TS" and start with
\* "src/", in output order.
_parse_errors(out) ==
    IF out = <<>> THEN <<>>
    ELSE LET ln == Head(out)
             rest == _parse_errors(Tail(out))
         IN IF ln.err /\ ln.path = "src"
              THEN _parse_error_line(ln) \o rest
              ELSE rest

\* What the environment does to the write of the temp file and to the start
\* of the compiler in one call.
WriteOutcomes == {"written", "open_fails", "write_fails"}
RunOutcomes == {"runs", "cannot_start"}

\* open(temp_file, "w") and f.write(tsx_code): the slot after the with block.
WriteTemp(file, tsx_code, w) ==
    CASE w = "written" -> tsx_code
      [] w = "write_fails" -> Truncated
      [] OTHER -> file

\* A variant of _clean_up that leaves the file in place.
_clean_up_Keep(file) == file

\* _clean_up: unlink the temp file if it exists.
_clean_up(file) == IF file # NoFile THEN NoFile ELSE file

\* A variant of the except branch that reports no error entry.
ExceptionResult_NoErrors(msg) == [valid |-> FALSE, errors |-> <<>>]

\* The except branch of validate_tsx.
ExceptionResult(msg) == [valid |-> FALSE, errors |-> <<ErrorText(msg)>>]

\* A variant of the returns of the try block that reports valid whatever
\* was parsed.
ParsedResult_AlwaysValid(parsed_errors) == [valid |-> TRUE, errors |-> parsed_errors]

\* The two returns of the try block of validate_tsx.
ParsedResult(parsed_errors) ==
    IF parsed_errors = <<>>
      THEN [valid |-> TRUE, errors |-> <<>>]
      ELSE [valid |-> FALSE, errors |-> parsed_errors]

\* The text the parser is given: result.stderr or result.stdout.
ParsedStream(result) ==
    IF result.stderr # <<>> THEN result.stderr ELSE result.stdout

\* A variant of the compiler's input: the text the call was given.
CompilerInput_OwnText(file, tsx_code) == tsx_code

\* What the compiler started by a call compiles: tsc is given the project
\* file only, so it reads whatever src/temp_1.tsx holds when it runs, not
\* the text the call was given.
CompilerInput(file, tsx_code) == file

\* The try block of validate_tsx once the with block is left with the slot
\* holding written: the dict returned and the exit path taken.
TryBlock(written, tsc, w, r) ==
    CASE w = "open_fails" ->
           [res |-> ExceptionResult("No such file or directory"), path |-> "write_failed"]
      [] w = "write_fails" ->
           [res |-> ExceptionResult("No space left on device"), path |-> "write_failed"]
      [] IsNone(tsc) ->
           [res |-> ExceptionResult("TypeScript compiler not found"), path |-> "no_compiler"]
      [] r = "cannot_start" ->
           [res |-> ExceptionResult("Permission denied"), path |-> "cannot_start"]
      [] OTHER ->
           LET result == TscRun(written)
               parsed_errors == _parse_errors(ParsedStream(result))
           IN [res |-> ParsedResult(parsed_errors),
               path |-> IF parsed_errors = <<>> THEN "valid" ELSE "diagnostics"]

\* A variant of validate_tsx that creates the temp file only when the slot
\* is free and removes it only when the try block returns normally.
validate_tsx_KeepsFile(tsx_code, file, tsc, w, r) ==
    LET written == IF file # NoFile THEN file ELSE WriteTemp(file, tsx_code, w)
        body == TryBlock(written, tsc, w, r)
    IN [res |-> body.res, path |-> body.path, src |-> tsx_code,
        file |-> IF body.path \in {"valid", "diagnostics"} THEN _clean_up(written) ELSE written]

\* validate_tsx on a validator whose tsc_path is tsc, with the temp slot
\* holding file when the call starts: the returned dict, the exit path
\* taken, and the slot when the call returns (the finally clause).
validate_tsx(tsx_code, file, tsc, w, r) ==
    LET written == WriteTemp(file, tsx_code, w)
        body == TryBlock(written, tsc, w, r)
    IN [res |-> body.res, path |-> body.path, src |-> tsx_code,
        file |-> _clean_up(written)]

InfraPaths == {"write_failed", "no_compiler", "cannot_start"}

\* ------------------------------------------------ workflow.py: the data

\* Request texts, as sequences of tokens so that query + new_query is a
\* concatenation.
Requests == {<<"r1">>, <<"r2">>}

\* Component titles as sequences of characters.
Header == <<"H", "e", "a", "d", "e", "r">>
Eader == <<"e", "a", "d", "e", "r">>
Ghost == <<"G", "h", "o", "s", "t">>

\* get_comps_descs(): the catalog as one text of "Title: description" lines.
components_descs ==
    Header \o <<":", " ", "t", "o", "p", "\n">> \o <<"B", "o", "x", ":", " ", "b">>

\* The unique names of the catalog's entries: the text before the ':' of
\* each line of components_descs.
Box == <<"B", "o", "x">>
CatalogNames == {Header, Box}

\* needle in haystack, for texts as sequences of characters.
Contains(haystack, needle) ==
    \E i \in 0..(Len(haystack) - Len(needle)) :
        \A j \in 1..Len(needle) : haystack[i + j] = needle[j]

\* Titles the text-generation service may name, and the number of
\* components in one structured answer.
ProposedTitles == {Header, Eader, Ghost}
MaxProposed == 1

RECURSIVE SeqsUpTo(_, _)
SeqsUpTo(S, n) ==
    IF n = 0 THEN {<<>>}
    ELSE LET shorter == SeqsUpTo(S, n - 1)
         IN shorter \cup {Append(q, x) : q \in {t \in shorter : Len(t) = n - 1}, x \in S}

FunnelAnswers == SeqsUpTo(ProposedTitles, MaxProposed)

\* The list comprehension of funnel: the proposed components whose
\* f'{title}:' occurs in components_descs.
FilterComponents(needed) ==
    SelectSeq(needed, LAMBDA t : Contains(components_descs, t \o <<":">>))

\* A code text: what it holds once the markdown fences are removed, and
\* whether it is wrapped in ```tsx fences.
Code(b, f) == [body |-> b, fenced |-> f]
code_sample == Code("sample", TRUE)
LlmCodes == {Code(b, f) : b \in {"ok", "bad1", "bad2"}, f \in BOOLEAN}

\* re.sub(r"```(jsx|tsx)\s*|\s*```", "", code)
StripFences(code) == Code(code.body, FALSE)

\* The errors field: None, a str or a list.
ErrNone == [tag |-> "None", text |-> "", list |-> <<>>]
ErrStr(s) == [tag |-> "str", text |-> s, list |-> <<>>]
ErrList(l) == [tag |-> "list", text |-> "", list |-> l]
Truthy(e) == (e.tag = "str" /\ e.text # "") \/ (e.tag = "list" /\ e.list # <<>>)

\* InterfaceGeneratingState(query=query)
InterfaceGeneratingState(query) ==
    [query |-> query, components |-> None, code |-> code_sample, errors |-> ErrNone,
     new_query |-> None, instructions |-> None, components_to_modify |-> None]

\* What generate hands back: the text it returns, or an exception it lets
\* escape.
Returned(t) == [how |-> "return", text |-> t]
Escaped(e) == [how |-> "raise", text |-> [kind |-> "exception", body |-> e, fenced |-> FALSE]]
CodeText(code) == [kind |-> "code", body |-> code.body, fenced |-> code.fenced]
GenerationError(e) == [kind |-> "message", body |-> e, fenced |-> FALSE]

RecursionMessage == "Recursion limit reached without hitting a stop condition"

\* ------------------------------------------------- workflow.py: retrieval

\* truncate_content keeps the first 250 lines of a snippet.
MaxSnippetLines == 250

\* A document of the vector index: its identity and its number of lines.
Doc(i, n) == [id |-> i, lines |-> n, cut |-> FALSE]

\* def_ret (mmr, k = 3) and dbg_ret (k = 1) on the prebuilt index: a
\* deterministic function of the query text.
Retrieve(is_dbg, q) ==
    IF is_dbg
      THEN <<Doc(<<"d1">> \o q, 300)>>
      ELSE <<Doc(<<"d1">> \o q, 300), Doc(<<"d2">> \o q, 12), Doc(<<"d3">> \o q, 250)>>

\* A variant of truncate_content that returns the content as it is.
truncate_content_Off(doc) == doc

truncate_content(doc) ==
    IF doc.lines > MaxSnippetLines
      THEN [doc EXCEPT !.lines = MaxSnippetLines, !.cut = TRUE]
      ELSE doc

TruncateAll(result) == [i \in 1..Len(result) |-> truncate_content(result[i])]

RECURSIVE SetToSeq(_)
\* The elements of a set in the order the iteration visits them.
SetToSeq(S) ==
    IF S = {} THEN <<>>
    ELSE LET x == CHOOSE y \in S : TRUE IN <<x>> \o SetToSeq(S \ {x})

Range(f) == {f[i] : i \in DOMAIN f}

RECURSIVE CacheAll(_, _, _)
\* The loop over results after the gather: docs_cache[qrs[i]] = result.
CacheAll(cache, qrs, is_dbg) ==
    IF qrs = <<>> THEN cache
    ELSE CacheAll((Head(qrs) :> TruncateAll(Retrieve(is_dbg, Head(qrs)))) @@ cache,
                  Tail(qrs), is_dbg)

RECURSIVE Flatten(_)
Flatten(lists) ==
    IF lists = <<>> THEN <<>> ELSE Head(lists) \o Flatten(Tail(lists))

\* A variant of search_docs that iterates over the list of queries as it is
\* given, without making a set of it.
search_docs_NoDedup(queries, is_dbg, cache, gather) ==
    LET hits == SelectSeq(queries, LAMBDA q : q \in DOMAIN cache)
        qrs == SelectSeq(queries, LAMBDA q : q \notin DOMAIN cache)
        cached == [i \in 1..Len(hits) |-> [nested |-> TRUE, docs |-> cache[hits[i]]]]
        fresh == Flatten([i \in 1..Len(qrs) |-> TruncateAll(Retrieve(is_dbg, qrs[i]))])
    IN IF qrs # <<>> /\ gather = "raises"
         THEN [raised |-> TRUE, docs |-> <<>>, cache |-> cache, lookups |-> qrs]
         ELSE [raised |-> FALSE,
               docs |-> cached \o [i \in 1..Len(fresh) |-> [nested |-> FALSE, docs |-> <<fresh[i]>>]],
               cache |-> CacheAll(cache, qrs, is_dbg),
               lookups |-> qrs]

\* A variant of search_docs that does not consult the cache before it
\* retrieves.
search_docs_NoCacheRead(queries, is_dbg, cache, gather) ==
    LET qrs == SetToSeq(Range(queries))
        fresh == Flatten([i \in 1..Len(qrs) |-> TruncateAll(Retrieve(is_dbg, qrs[i]))])
    IN IF qrs # <<>> /\ gather = "raises"
         THEN [raised |-> TRUE, docs |-> <<>>, cache |-> cache, lookups |-> qrs]
         ELSE [raised |-> FALSE,
               docs |-> [i \in 1..Len(fresh) |-> [nested |-> FALSE, docs |-> <<fresh[i]>>]],
               cache |-> CacheAll(cache, qrs, is_dbg),
               lookups |-> qrs]

\* A variant of search_docs that awaits and caches the lookups one by one,
\* so that the lookups before the failing one are cached when it raises.
search_docs_PartialCache(queries, is_dbg, cache, gather) ==
    LET qs == SetToSeq(Range(queries))
        hits == SelectSeq(qs, LAMBDA q : q \in DOMAIN cache)
        qrs == SelectSeq(qs, LAMBDA q : q \notin DOMAIN cache)
        cached == [i \in 1..Len(hits) |-> [nested |-> TRUE, docs |-> cache[hits[i]]]]
        fresh == Flatten([i \in 1..Len(qrs) |-> TruncateAll(Retrieve(is_dbg, qrs[i]))])
    IN IF qrs # <<>> /\ gather = "raises"
         THEN [raised |-> TRUE, docs |-> <<>>,
               cache |-> CacheAll(cache, SubSeq(qrs, 1, Len(qrs) - 1), is_dbg),
               lookups |-> qrs]
         ELSE [raised |-> FALSE,
               docs |-> cached \o [i \in 1..Len(fresh) |-> [nested |-> FALSE, docs |-> <<fresh[i]>>]],
               cache |-> CacheAll(cache, qrs, is_dbg),
               lookups |-> qrs]

\* search_docs(queries, is_dbg) with the cache as it is at the call and the
\* gather either completing or raising: the list returned (an entry is a
\* cached list, appended whole, or a retrieved document), the cache
\* afterwards, and whether the call raised.
search_docs(queries, is_dbg, cache, gather) ==
    LET qs == SetToSeq(Range(queries))
        hits == SelectSeq(qs, LAMBDA q : q \in DOMAIN cache)
        qrs == SelectSeq(qs, LAMBDA q : q \notin DOMAIN cache)
        cached == [i \in 1..Len(hits) |-> [nested |-> TRUE, docs |-> cache[hits[i]]]]
        fresh == Flatten([i \in 1..Len(qrs) |-> TruncateAll(Retrieve(is_dbg, qrs[i]))])
    IN IF qrs # <<>> /\ gather = "raises"
         THEN [raised |-> TRUE, docs |-> <<>>, cache |-> cache, lookups |-> qrs]
         ELSE [raised |-> FALSE,
               docs |-> cached \o [i \in 1..Len(fresh) |-> [nested |-> FALSE, docs |-> <<fresh[i]>>]],
               cache |-> CacheAll(cache, qrs, is_dbg),
               lookups |-> qrs]

GatherOutcomes == {"completes", "raises"}

\* The query write_code builds for a component (fresh mode) ...
CoderQuery(title) == <<"Detailed argsTypes, index and props of a component ">> \o title
\* ... and for a component to modify (iterative mode).
CoderIterQuery(title) == <<"Detailed ARG TYPES of props a component ">> \o title

\* re.findall(r'\W([A-Z]{2}[a-z]+)', message) as a set, for the messages the
\* compiler of this model emits.
Matches(message) ==
    CASE message = MsgMissingProp -> {<<"IButton">>}
      [] message = MsgNotAssignable -> {<<"IProps">>, <<"IButton">>}
      [] OTHER -> {}

\* f'useful code samples to fix {error['message']}'
GenericQuery(message) == <<"useful code samples to fix ", message>>

\* A variant of the query step of the loop that admits a generic query
\* while at most three queries are collected.
CollectQueries_OffByOne(queries, error) ==
    LET matches == Matches(error.message)
    IN IF matches # {} THEN queries \o SetToSeq(matches)
       ELSE IF Len(queries) <= 3 THEN Append(queries, GenericQuery(error.message))
       ELSE queries

\* The query step of the loop of debug_docs for one error: the extracted
\* terms, or a generic query while fewer than three queries are collected.
CollectQueries(queries, error) ==
    LET matches == Matches(error.message)
    IN IF matches # {} THEN queries \o SetToSeq(matches)
       ELSE IF Len(queries) < 3 THEN Append(queries, GenericQuery(error.message))
       ELSE queries

RECURSIVE DebugQueries(_, _)
\* The queries debug_docs collects over errors_list, starting from queries.
DebugQueries(errors_list, queries) ==
    IF errors_list = <<>> THEN queries
    ELSE DebugQueries(Tail(errors_list), CollectQueries(queries, Head(errors_list)))

\* code.splitlines() for a code of n lines: line i of the source, with the
\* markers appended to it so far.
splitlines(n) == [i \in 1..n |-> [text |-> i, marks |-> <<>>]]

\* f"//ERROR {error['code']}: {error['message']}"
ErrorMarker(error) == [code |-> error.code, message |-> error.message]

\* A variant of the annotation step that leaves out the markers that fall
\* outside the source.
Annotate_DropsOutOfBounds(code_lines, error) ==
    LET line_num == error.location[1] - 1
        idx == IF line_num >= 0 THEN line_num + 1 ELSE Len(code_lines) + line_num + 1
    IN IF line_num < Len(code_lines) /\ idx >= 1
         THEN [raised |-> FALSE,
               code_lines |-> [code_lines EXCEPT ![idx].marks = Append(@, ErrorMarker(error))]]
         ELSE [raised |-> FALSE, code_lines |-> code_lines]

\* The annotation step of the loop of debug_docs for one error: the marker
\* is added to code_lines[line_num] when line_num < len(code_lines) (a
\* negative line_num counts from the end and raises IndexError when the
\* list is too short), and appended as a new line otherwise.
Annotate(code_lines, error) ==
    LET line_num == error.location[1] - 1
        idx == IF line_num >= 0 THEN line_num + 1 ELSE Len(code_lines) + line_num + 1
    IN IF line_num < Len(code_lines)
         THEN IF idx >= 1
                THEN [raised |-> FALSE,
                      code_lines |-> [code_lines EXCEPT ![idx].marks = Append(@, ErrorMarker(error))]]
                ELSE [raised |-> TRUE, code_lines |-> code_lines]
         ELSE [raised |-> FALSE,
               code_lines |-> Append(code_lines, [text |-> 0, marks |-> <<ErrorMarker(error)>>])]

\* error['location'] raises TypeError when error is a str: an entry of the
\* list that is a text, or a character of errors when errors is a str.
DebugDocsRaises(errors) ==
    \/ errors.tag = "str" /\ errors.text # ""
    \/ \E i \in 1..Len(errors.list) : errors.list[i].kind = "text"

\* ---------------------------------------------------------------- state

VARIABLES
    boot,        \* how far the module-level try block of workflow.py got
    tsc_path,    \* validator.tsc_path: None or the compiler's path
    tempFile,    \* content of tsx_validator_env/src/temp_1.tsx, or NoFile
    docs_cache,  \* docs_cache: query text -> retrieved list
    memory,      \* the checkpoint of thread "42": None or the channel values
    pc,          \* "idle", or the graph node that runs next, or "END"
    step,        \* super-steps the running ainvoke has completed
    turns,       \* calls of generate so far
    ret,         \* what the last call of generate handed back
    stages,      \* history: the nodes started in the current turn, in order
    ticks,       \* history: the steps the current turn has taken
    v,           \* history: the last validate_tsx call
    hist,        \* history of direct validate_tsx calls: their number, per
                 \* source text the first result of a compiler run, the source
                 \* of the call before the last, and whether the compiler had
                 \* already run on the source of the last call
    s,           \* the search_docs call made directly: its arguments, the
                 \* lookups in flight, and what it returned
    d,           \* the debug_docs call made directly: its arguments, the
                 \* locals of its loop, and what it returned
    start,       \* history: None, or the state the graph was invoked on
                 \* directly
    sess,        \* history: the conversation the last request of a client
                 \* belongs to, the conversations that made a request
                 \* before it, and the checkpoint it found
    vc,          \* two callers of validate_tsx that run at the same time:
                 \* the position of each in the method, its source text,
                 \* what the temp slot held when its compiler ran, and its
                 \* result
    p,           \* the subprocess result a compiler run came back with, and
                 \* the dict validate_tsx made of it
    ov           \* two search_docs calls that overlap in time: the position
                 \* of each, its retriever and the queries it found uncached;
                 \* history: the lookups made per query text, and whether
                 \* a cache entry was assigned a second time

vars ==
    <<boot, tsc_path, tempFile, docs_cache, memory, pc, step, turns, ret, stages, ticks, v, hist,
      s, d, start, sess, vc, p, ov>>

Nodes == {"funnel", "coder", "compiler", "debug"}

NoCall ==
    [res |-> [valid |-> FALSE, errors |-> <<>>], path |-> "none", src |-> "", file |-> NoFile]

NoHistory ==
    [calls |-> 0, seen |-> [b \in Bodies |-> None], prev |-> "", repeat |-> FALSE]

\* No direct search_docs call has been made.
NoSearch ==
    [calls |-> 0, phase |-> "idle", queries |-> <<>>, is_dbg |-> FALSE,
     lookups |-> <<>>, pending |-> {}, returned |-> {}, before |-> <<>>,
     prior |-> {}, done |-> {}, raised |-> FALSE, docs |-> <<>>]

\* No direct debug_docs call has been made.
NoDebug ==
    [phase |-> "idle", n |-> 0, D |-> <<>>, code_lines |-> <<>>, errors |-> <<>>,
     queries |-> <<>>, prev_lines |-> <<>>, prev_queries |-> <<>>, last |-> None,
     raised |-> FALSE, docs |-> None]

\* No request of a client has been made.
NoConv == "<none>"
NoSession == [conv |-> NoConv, seen |-> {}, first |-> FALSE, found |-> FALSE, writer |-> NoConv]

\* The two callers of validate_tsx.
Callers == {1, 2}
NoCallers ==
    [c \in Callers |->
       [pc |-> "idle", src |-> "", slot |-> NoFile, disturbed |-> FALSE,
        res |-> [valid |-> FALSE, errors |-> <<>>], path |-> "none"]]

\* No compiler run has come back.
NoParse ==
    [phase |-> "idle", returncode |-> 0, stdout |-> <<>>, stderr |-> <<>>,
     res |-> [valid |-> FALSE, errors |-> <<>>]]

\* The query texts of the direct calls.
SearchQueries == {CoderQuery(Header), <<"IButton">>}

\* The two search_docs calls that overlap.
Tasks == {1, 2}

\* No search_docs call has started.
NoBatches ==
    [task |-> [t \in Tasks |-> [phase |-> "idle", is_dbg |-> FALSE, qrs |-> <<>>, pending |-> {}]],
     lookups |-> [q \in SearchQueries |-> 0],
     replaced |-> FALSE]

\* The module-level try block: "no_llm" leaves every global undefined,
\* "no_memory" fails after llm and before memory, "no_catalog" fails in
\* get_comps_descs, so components_descs and docs_cache stay undefined.
BootOutcomes == {"ok", "no_llm", "no_memory", "no_catalog"}

Init ==
    /\ boot \in BootOutcomes
    /\ tsc_path \in {None, Some("node_modules/.bin/tsc")}
    /\ tempFile = NoFile
    /\ docs_cache = <<>>
    /\ memory = None
    /\ pc = "idle"
    /\ step = 0
    /\ turns = 0
    /\ ret = None
    /\ stages = <<>>
    /\ ticks = 0
    /\ v = NoCall
    /\ hist = NoHistory
    /\ s = NoSearch
    /\ d = NoDebug
    /\ start = None
    /\ sess = NoSession
    /\ vc = NoCallers
    /\ p = NoParse
    /\ ov = NoBatches

\* ------------------------------------------------------ workflow.generate

\* Variants of the except clauses of generate: one that hands back the code
\* of the state, one that hands back the default text of the success path,
\* one that lets the exception escape.
OnException_ReturnsCode(e, state) == Returned(CodeText(state.code))
OnException_DefaultText(e, state) == Returned(GenerationError("No code generated"))
OnException_Escapes(e, state) == Escaped(e)

\* The except clauses of generate: every Exception becomes the returned
\* text "An error occurred during generation: ...".
OnException(e, state) == Returned(GenerationError(e))

\* return str(state.get('code', 'No code generated'))
OnCompleted(state) == Returned(CodeText(state.code))

\* app.generate_ui on what an awaited generate handed back: the status and
\* the key of the JSON body of the response.
generate_ui(outcome) ==
    IF outcome.how = "return"
      THEN [status |-> 200, key |-> "result", body |-> outcome.text]
      ELSE [status |-> 500, key |-> "error", body |-> outcome.text]

\* A variant of compile_interface with the test inverted.
compile_interface_Inverted(state) == IF Truthy(state.errors) THEN "END" ELSE "debug"

\* compile_interface: the conditional edge after the compiler node.
compile_interface(state) == IF ~Truthy(state.errors) THEN "END" ELSE "debug"

\* A variant of a node's failure in which the runtime runs the node again.
Raise_Retries(e) ==
    /\ pc' = pc
    /\ ticks' = ticks + 1
    /\ UNCHANGED <<ret, memory, step>>

\* A variant of a node's failure in which the runtime starts the graph
\* again at its entry point.
Raise_Restarts(e) ==
    /\ pc' = "funnel"
    /\ ticks' = ticks + 1
    /\ UNCHANGED <<ret, memory, step>>

\* A node raises: the exception leaves ainvoke and generate returns.
Raise(e) ==
    /\ ret' = Some(OnException(e, memory[1]))
    /\ pc' = "idle"
    /\ ticks' = ticks + 1
    /\ UNCHANGED <<memory, step>>

\* A variant of the runtime's step that does not count the super-step.
Advance_NoCount(state, next) ==
    /\ memory' = Some(state)
    /\ pc' = next
    /\ ticks' = ticks + 1
    /\ UNCHANGED <<ret, step>>

\* A node returns its state: the runtime writes the checkpoint and moves on.
Advance(state, next) ==
    /\ memory' = Some(state)
    /\ pc' = next
    /\ step' = step + 1
    /\ ticks' = ticks + 1
    /\ UNCHANGED ret

\* A variant of the start of generate that builds a fresh state whatever
\* the checkpointer holds.
LoadAndInvoke_Fresh(query) ==
    /\ pc = "idle"
    /\ turns < MaxTurns
    /\ turns' = turns + 1
    /\ stages' = <<>>
    /\ ticks' = 0
    /\ IF boot \in {"no_llm", "no_memory"}
         THEN /\ ret' = Some(OnException("NameError: memory", InterfaceGeneratingState(query)))
              /\ UNCHANGED <<memory, pc, step>>
         ELSE /\ memory' = Some(InterfaceGeneratingState(query))
              /\ pc' = "funnel"
              /\ step' = 0
              /\ ret' = None
    /\ UNCHANGED <<boot, tsc_path, tempFile, docs_cache, v, hist, s, d, start, vc, p, ov>>

\* generate, up to graph.ainvoke: load the checkpoint of the thread,
\* overwrite its query (or build a fresh state) and start the graph at its
\* entry point.
LoadAndInvoke(query) ==
    /\ pc = "idle"
    /\ turns < MaxTurns
    /\ turns' = turns + 1
    /\ stages' = <<>>
    /\ ticks' = 0
    /\ IF boot \in {"no_llm", "no_memory"}
         THEN \* memory.get_tuple: NameError, caught by the outer except
              /\ ret' = Some(OnException("NameError: memory", InterfaceGeneratingState(query)))
              /\ UNCHANGED <<memory, pc, step>>
         ELSE /\ memory' = Some(IF IsNone(memory)
                                  THEN InterfaceGeneratingState(query)
                                  ELSE [memory[1] EXCEPT !.query = query])
              /\ pc' = "funnel"
              /\ step' = 0
              /\ ret' = None
    /\ UNCHANGED <<boot, tsc_path, tempFile, docs_cache, v, hist, s, d, start, vc, p, ov>>

\* A call of generate by a caller that awaits it.
generate(query) ==
    /\ LoadAndInvoke(query)
    /\ UNCHANGED sess

Instructions == {"replace the header"}

\* llm is None: llm is bound to a ChatOpenAI before memory is (lines 28 and
\* 50), so it is never None in a turn that reaches the graph.
llm_is_None == FALSE

\* The funnel node.
funnel ==
    /\ pc = "funnel"
    /\ step < RecursionLimit
    /\ stages' = Append(stages, "funnel")
    /\ LET state == memory[1] IN
       \/ /\ boot = "no_catalog"
          /\ Raise("NameError: components_descs")
       \/ /\ boot = "ok"
          /\ \E e \in {"text generation failed", "OutputParserException"} : Raise(e)
       \/ /\ boot = "ok"
          /\ \E res \in FunnelAnswers, ins \in Instructions :
               Advance(CASE llm_is_None ->
                              [state EXCEPT !.errors = ErrStr("LLM not initialized properly")]
                         [] ~IsNone(state.new_query) ->
                              [state EXCEPT !.instructions = Some(ins),
                                            !.components_to_modify = Some(res)]
                         [] OTHER ->
                              [state EXCEPT !.components = Some(FilterComponents(res))],
                       "coder")
    /\ UNCHANGED <<boot, tsc_path, tempFile, docs_cache, turns, v, hist, s, d,
                   start, sess, vc, p, ov>>

\* The coder node.
write_code ==
    /\ pc = "coder"
    /\ step < RecursionLimit
    /\ stages' = Append(stages, "coder")
    /\ LET state == memory[1]
           iter == ~IsNone(state.new_query)
           titles == IF iter THEN state.components_to_modify[1] ELSE state.components[1]
           queries == [i \in 1..Len(titles) |->
                         IF iter THEN CoderIterQuery(titles[i]) ELSE CoderQuery(titles[i])]
       IN \E g \in GatherOutcomes :
            \E sd \in {search_docs(queries, FALSE, docs_cache, g)} :
            /\ docs_cache' = sd.cache
            /\ \/ /\ sd.raised
                  /\ Raise("retriever failed")
               \/ /\ ~sd.raised
                  /\ Raise("text generation failed")
               \/ /\ ~sd.raised
                  /\ \E interface_code \in LlmCodes :
                       Advance([state EXCEPT !.code = interface_code], "compiler")
    /\ UNCHANGED <<boot, tsc_path, tempFile, turns, v, hist, s, d,
                   start, sess, vc, p, ov>>

\* A variant of compile_code that appends new_query whatever validate_tsx
\* returned.
Compiled_AlwaysAppends(state, code, res) ==
    LET query == IF ~IsNone(state.new_query) THEN state.query \o state.new_query[1]
                 ELSE state.query
    IN IF res.valid
         THEN [state EXCEPT !.code = code, !.errors = ErrStr(""), !.query = query]
         ELSE [state EXCEPT !.code = code, !.errors = ErrList(res.errors), !.query = query]

\* A variant of compile_code that leaves the errors of the state in place
\* when validate_tsx returned valid.
Compiled_KeepsErrors(state, code, res) ==
    IF res.valid
      THEN [state EXCEPT !.code = code,
                         !.query = IF ~IsNone(state.new_query)
                                     THEN @ \o state.new_query[1]
                                     ELSE @]
      ELSE [state EXCEPT !.code = code, !.errors = ErrList(res.errors)]

\* compile_code on state, given what validate_tsx returned.
Compiled(state, code, res) ==
    IF res.valid
      THEN [state EXCEPT !.code = code,
                         !.errors = ErrStr(""),
                         !.query = IF ~IsNone(state.new_query)
                                     THEN @ \o state.new_query[1]
                                     ELSE @]
      ELSE [state EXCEPT !.code = code, !.errors = ErrList(res.errors)]

\* The compiler node and the conditional edge that follows it.
compile_code ==
    /\ pc = "compiler"
    /\ step < RecursionLimit
    /\ stages' = Append(stages, "compiler")
    /\ \E w \in WriteOutcomes, r \in RunOutcomes :
         \E call \in {validate_tsx(StripFences(memory[1].code).body, tempFile, tsc_path, w, r)} :
         \E new \in {Compiled(memory[1], StripFences(memory[1].code), call.res)} :
            /\ tempFile' = call.file
            /\ v' = call
            /\ Advance(new, compile_interface(new))
    /\ UNCHANGED <<boot, tsc_path, docs_cache, turns, hist, s, d,
                   start, sess, vc, p, ov>>

\* The debug node: debug_docs, then the debugger chain.
revise_code ==
    /\ pc = "debug"
    /\ step < RecursionLimit
    /\ stages' = Append(stages, "debug")
    /\ LET state == memory[1]
           raises == DebugDocsRaises(state.errors)
           queries == DebugQueries(state.errors.list, <<>>)
       IN \/ /\ raises
             /\ Raise("TypeError: string indices must be integers")
             /\ UNCHANGED docs_cache
          \/ /\ ~raises
             /\ \E g \in GatherOutcomes :
                  \E sd \in {IF queries # <<>>
                               THEN search_docs(queries, TRUE, docs_cache, g)
                               ELSE [raised |-> FALSE, docs |-> <<>>,
                                     cache |-> docs_cache, lookups |-> <<>>]} :
                     /\ docs_cache' = sd.cache
                     /\ \/ /\ sd.raised
                           /\ Raise("retriever failed")
                        \/ /\ ~sd.raised
                           /\ Raise("text generation failed")
                        \/ /\ ~sd.raised
                           /\ \E fixed_code \in LlmCodes :
                                Advance([state EXCEPT !.code = fixed_code], "compiler")
    /\ UNCHANGED <<boot, tsc_path, tempFile, turns, v, hist, s, d,
                   start, sess, vc, p, ov>>

\* The graph runtime: a node is due and the recursion limit is used up.
GraphRecursionError ==
    /\ pc \in Nodes
    /\ step >= RecursionLimit
    /\ Raise(RecursionMessage)
    /\ UNCHANGED <<boot, tsc_path, tempFile, docs_cache, turns, stages, v, hist, s, d,
                   start, sess, vc, p, ov>>

\* The graph reached END: ainvoke returns the channel values.
ReturnCode ==
    /\ pc = "END"
    /\ ret' = Some(OnCompleted(memory[1]))
    /\ pc' = "idle"
    /\ ticks' = ticks + 1
    /\ UNCHANGED <<boot, tsc_path, tempFile, docs_cache, memory, step, turns, stages, v, hist, s, d,
                   start, sess, vc, p, ov>>

Next ==
    \/ \E query \in Requests : generate(query)
    \/ funnel
    \/ write_code
    \/ compile_code
    \/ revise_code
    \/ GraphRecursionError
    \/ ReturnCode

Spec == Init /\ [][Next]_vars

\* ------------------------------------------- the graph invoked directly

\* Number of direct invocations of the graph in one behaviour.
MaxInvocations == 1

\* Texts of a follow-up request.
NewRequests == {<<"n1">>}

\* The errors a checkpoint holds when generate loads it: None, or the
\* diagnostics of the last validation of an earlier turn.
LeftErrors == {ErrNone, ErrList(<<Diagnostic(1, 5, "TS2741", MsgMissingProp)>>)}

\* The states the graph is invoked on: a fresh state, a state that holds
\* what an earlier turn left, or one whose new_query holds a follow-up
\* request.
GraphInputs ==
    {[InterfaceGeneratingState(query) EXCEPT !.new_query = new_query, !.errors = errors] :
        query \in {<<"r1">>}, new_query \in {None} \cup {Some(n) : n \in NewRequests},
        errors \in LeftErrors}

\* graph.ainvoke(state, config) on the graph generate builds, for any input
\* state: the input is written to the channels of the thread and the graph
\* starts at its entry point.
ainvoke(state) ==
    /\ boot \notin {"no_llm", "no_memory"}
    /\ pc = "idle"
    /\ turns < MaxInvocations
    /\ turns' = turns + 1
    /\ stages' = <<>>
    /\ ticks' = 0
    /\ memory' = Some(state)
    /\ pc' = "funnel"
    /\ step' = 0
    /\ ret' = None
    /\ start' = Some(state)
    /\ UNCHANGED <<boot, tsc_path, tempFile, docs_cache, v, hist, s, d, sess, vc, p, ov>>

NextGraph ==
    \/ \E state \in GraphInputs : ainvoke(state)
    \/ funnel
    \/ write_code
    \/ compile_code
    \/ revise_code
    \/ GraphRecursionError
    \/ ReturnCode

SpecGraph == Init /\ [][NextGraph]_vars

\* ------------------------------------------ requests of several clients

\* The conversations clients hold with the service.
Conversations == {"a", "b"}

\* POST /generate of a request that belongs to conversation conv:
\* generate_ui takes the question from the body and calls generate on it;
\* neither takes anything that identifies the conversation.
Request(conv, question) ==
    /\ LoadAndInvoke(question)
    /\ sess' = [conv |-> conv,
                seen |-> sess.seen \cup {conv},
                first |-> conv \notin sess.seen,
                found |-> ~IsNone(memory),
                writer |-> sess.conv]

NextSessions ==
    \/ \E conv \in Conversations, question \in Requests : Request(conv, question)
    \/ funnel
    \/ write_code
    \/ compile_code
    \/ revise_code
    \/ GraphRecursionError
    \/ ReturnCode

SpecSessions == Init /\ [][NextSessions]_vars

\* ------------------------------------------------ the compiler's two streams

\* Lines the compiler process may write, and the number of lines on one
\* stream.
LinePool ==
    {SrcError(1, 5, "2741", MsgMissingProp), SrcError(2, 10, "2305", MsgNoExport),
     VendorError(3, 1, "2305", MsgNoExport), BrokenSrcError, FreeText}
MaxOutLines == 2
Streams == SeqsUpTo(LinePool, MaxOutLines)

\* The exit status of a compiler process that wrote the lines out: tsc
\* exits with 0 only when it reports no error; a process that reports none
\* may still fail (check=False lets any status through).
ExitCodes(out) ==
    IF \E i \in DOMAIN out : out[i].err THEN {2} ELSE {0, 2}

\* Lines 166-179 of validate_tsx for any completed process: _run_command
\* returns result and the dict is made of result.stderr or result.stdout.
CompilerReturns ==
    /\ p.phase = "idle"
    /\ \E stdout \in Streams, stderr \in Streams :
         \E returncode \in ExitCodes(stdout \o stderr) :
         \E result \in {[returncode |-> returncode, stdout |-> stdout, stderr |-> stderr]} :
            p' = [phase |-> "done", returncode |-> returncode,
                  stdout |-> stdout, stderr |-> stderr,
                  res |-> ParsedResult(_parse_errors(ParsedStream(result)))]
    /\ UNCHANGED <<boot, tsc_path, tempFile, docs_cache, memory, pc, step, turns, ret, stages,
                   ticks, v, hist, s, d, start, sess, vc, ov>>

SpecParse == Init /\ [][CompilerReturns]_vars

\* --------------------------------- two validate_tsx calls at the same time

Other(c) == CHOOSE o \in Callers : o # c

\* Lines 151-155 of one call: the temp file is opened for writing and the
\* source text written.  A call of the other caller that has written and
\* not yet run its compiler is disturbed by it.
WriteSource(c) ==
    /\ vc[c].pc = "idle"
    /\ \E tsx_code \in Bodies :
         /\ tempFile' = WriteTemp(tempFile, tsx_code, "written")
         /\ vc' = [vc EXCEPT ![c] = [@ EXCEPT !.pc = "written", !.src = tsx_code],
                             ![Other(c)] = [@ EXCEPT !.disturbed = @ \/ vc[Other(c)].pc = "written"]]
    /\ UNCHANGED <<boot, tsc_path, docs_cache, memory, pc, step, turns, ret, stages, ticks, v,
                   hist, s, d, start, sess, p, ov>>

\* Lines 157-179 of one call: the compiler runs on the project and its
\* output is parsed, or the call finds that it has no compiler.
RunCompiler(c) ==
    /\ vc[c].pc = "written"
    /\ \E body \in {TryBlock(CompilerInput(tempFile, vc[c].src), tsc_path, "written", "runs")} :
         vc' = [vc EXCEPT ![c] = [@ EXCEPT !.pc = "ran", !.slot = tempFile,
                                           !.res = body.res, !.path = body.path]]
    /\ UNCHANGED <<boot, tsc_path, tempFile, docs_cache, memory, pc, step, turns, ret, stages,
                   ticks, v, hist, s, d, start, sess, p, ov>>

\* The finally clause of one call.
CleanUp(c) ==
    /\ vc[c].pc = "ran"
    /\ tempFile' = _clean_up(tempFile)
    /\ vc' = [vc EXCEPT ![c] = [@ EXCEPT !.pc = "done"],
                        ![Other(c)] = [@ EXCEPT !.disturbed = @ \/ vc[Other(c)].pc = "written"]]
    /\ UNCHANGED <<boot, tsc_path, docs_cache, memory, pc, step, turns, ret, stages, ticks, v,
                   hist, s, d, start, sess, p, ov>>

NextConcurrent ==
    \/ \E c \in Callers : WriteSource(c)
    \/ \E c \in Callers : RunCompiler(c)
    \/ \E c \in Callers : CleanUp(c)

SpecConcurrent == Init /\ [][NextConcurrent]_vars

\* ------------------------------------------ the validator called directly

\* Number of direct validate_tsx calls in one behaviour.
MaxCalls == 3

\* validator.validate_tsx(tsx_code) called on any source text, as
\* compile_code calls it, outside a turn.
ValidateCall ==
    /\ hist.calls < MaxCalls
    /\ \E tsx_code \in Bodies, w \in WriteOutcomes, r \in RunOutcomes :
         \E call \in {validate_tsx(tsx_code, tempFile, tsc_path, w, r)} :
            /\ tempFile' = call.file
            /\ v' = call
            /\ hist' = [calls |-> hist.calls + 1,
                        seen |-> IF call.path \in {"valid", "diagnostics"}
                                      /\ IsNone(hist.seen[tsx_code])
                                   THEN [hist.seen EXCEPT ![tsx_code] = Some(call.res)]
                                   ELSE hist.seen,
                        prev |-> v.src,
                        repeat |-> ~IsNone(hist.seen[tsx_code])]
    /\ UNCHANGED <<boot, docs_cache, memory, pc, step, turns, ret, stages, ticks, tsc_path, s, d,
                   start, sess, vc, p, ov>>

SpecValidator == Init /\ [][ValidateCall]_vars

\* ------------------------------------------- search_docs called directly

\* Number of direct search_docs calls in one behaviour, and the length of
\* the list of queries of one call.
MaxSearches == 3
MaxBatch == 2

SearchBatches == SeqsUpTo(SearchQueries, MaxBatch)

\* search_docs(queries, is_dbg) up to the await of the gather: the cached
\* queries are answered from docs_cache and one retriever task is created
\* per query that is not cached; with no such query the call returns.
SearchStart ==
    /\ boot = "ok"
    /\ s.phase = "idle"
    /\ s.calls < MaxSearches
    /\ \E queries \in SearchBatches, is_dbg \in BOOLEAN :
         \E sd \in {search_docs(queries, is_dbg, docs_cache, "completes")} :
            s' = IF sd.lookups = <<>>
                   THEN [s EXCEPT !.calls = @ + 1, !.queries = queries, !.is_dbg = is_dbg,
                                  !.lookups = <<>>, !.pending = {}, !.returned = {},
                                  !.before = docs_cache, !.prior = s.done,
                                  !.done = @ \cup Range(queries),
                                  !.raised = FALSE, !.docs = sd.docs]
                   ELSE [s EXCEPT !.phase = "gather", !.queries = queries, !.is_dbg = is_dbg,
                                  !.lookups = sd.lookups, !.pending = Range(sd.lookups),
                                  !.returned = {}, !.before = docs_cache, !.prior = s.done,
                                  !.raised = FALSE, !.docs = <<>>]
    /\ UNCHANGED <<boot, tsc_path, tempFile, docs_cache, memory, pc, step, turns, ret, stages,
                   ticks, v, hist, d,
                   start, sess, vc, p, ov>>

\* One retriever task of the gather returns its documents.
LookupReturns ==
    /\ s.phase = "gather"
    /\ \E q \in s.pending :
         s' = [s EXCEPT !.pending = @ \ {q}, !.returned = @ \cup {q}]
    /\ UNCHANGED <<boot, tsc_path, tempFile, docs_cache, memory, pc, step, turns, ret, stages,
                   ticks, v, hist, d,
                   start, sess, vc, p, ov>>

\* One retriever task raises: the gather raises at once and the exception
\* leaves search_docs.
LookupFails ==
    /\ s.phase = "gather"
    /\ s.pending # {}
    /\ \E sd \in {search_docs(s.queries, s.is_dbg, docs_cache, "raises")} :
         /\ docs_cache' = sd.cache
         /\ s' = [s EXCEPT !.phase = "idle", !.calls = @ + 1, !.pending = {},
                           !.raised = TRUE, !.docs = sd.docs]
    /\ UNCHANGED <<boot, tsc_path, tempFile, memory, pc, step, turns, ret, stages,
                   ticks, v, hist, d,
                   start, sess, vc, p, ov>>

\* Every task has returned: the loop over results truncates, collects and
\* caches them and search_docs returns docs.
GatherCompletes ==
    /\ s.phase = "gather"
    /\ s.pending = {}
    /\ \E sd \in {search_docs(s.queries, s.is_dbg, docs_cache, "completes")} :
         /\ docs_cache' = sd.cache
         /\ s' = [s EXCEPT !.phase = "idle", !.calls = @ + 1,
                           !.done = @ \cup Range(s.queries),
                           !.raised = FALSE, !.docs = sd.docs]
    /\ UNCHANGED <<boot, tsc_path, tempFile, memory, pc, step, turns, ret, stages,
                   ticks, v, hist, d,
                   start, sess, vc, p, ov>>

NextRetrieval ==
    \/ SearchStart
    \/ LookupReturns
    \/ LookupFails
    \/ GatherCompletes

SpecRetrieval == Init /\ [][NextRetrieval]_vars

\* --------------------------------------- search_docs calls that overlap

\* search_docs up to its await: the loop over set(queries) sorts the
\* queries into cached ones and qrs; with no qrs the call returns at once.
BatchStart(t) ==
    /\ boot = "ok"
    /\ ov.task[t].phase = "idle"
    /\ \E queries \in SearchBatches, is_dbg \in BOOLEAN :
         \E sd \in {search_docs(queries, is_dbg, docs_cache, "completes")} :
            ov' = [ov EXCEPT !.task[t] =
                     [phase |-> IF sd.lookups = <<>> THEN "done" ELSE "gather",
                      is_dbg |-> is_dbg, qrs |-> sd.lookups, pending |-> Range(sd.lookups)]]
    /\ UNCHANGED <<boot, tsc_path, tempFile, docs_cache, memory, pc, step, turns, ret, stages,
                   ticks, v, hist, s, d, start, sess, vc, p>>

\* One retriever.ainvoke of the gather of a call is made and returns.
BatchLookup(t) ==
    /\ ov.task[t].phase = "gather"
    /\ \E q \in ov.task[t].pending :
         ov' = [ov EXCEPT !.task[t].pending = @ \ {q}, !.lookups[q] = @ + 1]
    /\ UNCHANGED <<boot, tsc_path, tempFile, docs_cache, memory, pc, step, turns, ret, stages,
                   ticks, v, hist, s, d, start, sess, vc, p>>

\* The gather of a call has returned: the loop over results assigns
\* docs_cache[qrs[i]] for the qrs the call found uncached when it started.
BatchComplete(t) ==
    /\ ov.task[t].phase = "gather"
    /\ ov.task[t].pending = {}
    /\ docs_cache' = CacheAll(docs_cache, ov.task[t].qrs, ov.task[t].is_dbg)
    /\ ov' = [ov EXCEPT !.task[t].phase = "done",
                      !.replaced = @ \/ \E q \in Range(ov.task[t].qrs) : q \in DOMAIN docs_cache]
    /\ UNCHANGED <<boot, tsc_path, tempFile, memory, pc, step, turns, ret, stages,
                   ticks, v, hist, s, d, start, sess, vc, p>>

NextOverlap ==
    \/ \E t \in Tasks : BatchStart(t)
    \/ \E t \in Tasks : BatchLookup(t)
    \/ \E t \in Tasks : BatchComplete(t)

SpecOverlap == Init /\ [][NextOverlap]_vars

\* ------------------------------------------- debug_docs called directly

\* Lines of the source, line numbers of the diagnostics and length of the
\* list of diagnostics of the direct call.
MaxSrcLines == 2
MaxLine == 2
MaxDiags == 3

DebugMessages == {MsgNotAssignable, MsgNoExport}
DiagPool == {Diagnostic(l, 1, "TS2322", m) : l \in 0..MaxLine, m \in DebugMessages}

NoInformation == "No special information needed to fix these errors"

\* debug_docs(code, errors_list) up to its loop.
DebugDocsStart ==
    /\ boot = "ok"
    /\ d.phase = "idle"
    /\ \E n \in 0..MaxSrcLines, errors_list \in SeqsUpTo(DiagPool, MaxDiags) :
         d' = [d EXCEPT !.phase = "loop", !.n = n, !.D = errors_list,
                        !.code_lines = splitlines(n), !.errors = errors_list]
    /\ UNCHANGED <<boot, tsc_path, tempFile, docs_cache, memory, pc, step, turns, ret, stages,
                   ticks, v, hist, s,
                   start, sess, vc, p, ov>>

\* One pass of the loop over errors_list; an IndexError leaves debug_docs.
DebugDocsLoop ==
    /\ d.phase = "loop"
    /\ d.errors # <<>>
    /\ \E error \in {Head(d.errors)} :
         \E a \in {Annotate(d.code_lines, error)} :
            d' = [d EXCEPT !.phase = IF a.raised THEN "done" ELSE "loop",
                           !.raised = a.raised,
                           !.errors = Tail(@),
                           !.last = Some(error),
                           !.prev_lines = d.code_lines,
                           !.prev_queries = d.queries,
                           !.code_lines = a.code_lines,
                           !.queries = CollectQueries(@, error)]
    /\ UNCHANGED <<boot, tsc_path, tempFile, docs_cache, memory, pc, step, turns, ret, stages,
                   ticks, v, hist, s,
                   start, sess, vc, p, ov>>

\* After the loop: the documents for the queries, or the text that none
\* are needed, and the return of the annotated code.
DebugDocsReturn ==
    /\ d.phase = "loop"
    /\ d.errors = <<>>
    /\ \E g \in GatherOutcomes :
         \E sd \in {IF d.queries # <<>>
                      THEN search_docs(d.queries, TRUE, docs_cache, g)
                      ELSE [raised |-> FALSE, docs |-> NoInformation,
                            cache |-> docs_cache, lookups |-> <<>>]} :
            /\ docs_cache' = sd.cache
            /\ d' = [d EXCEPT !.phase = "done", !.raised = sd.raised, !.docs = Some(sd.docs)]
    /\ UNCHANGED <<boot, tsc_path, tempFile, memory, pc, step, turns, ret, stages,
                   ticks, v, hist, s,
                   start, sess, vc, p, ov>>

NextDebugDocs ==
    \/ DebugDocsStart
    \/ DebugDocsLoop
    \/ DebugDocsReturn

SpecDebugDocs == Init /\ [][NextDebugDocs]_vars

\* --------------------------------------------------------------- claims

Last(q) == q[Len(q)]
Count(q, x) == Cardinality({i \in 1..Len(q) : q[i] = x})

\* The edges of the graph generate builds.
GraphEdges ==
    {<<"funnel", "coder">>, <<"coder", "compiler">>,
     <<"compiler", "debug">>, <<"debug", "compiler">>}

\* The turn is over because the recursion limit was used up: every granted
\* super-step completed and a node was still due.
Exhausted == pc = "idle" /\ stages # <<>> /\ step = RecursionLimit

\* C1: in every turn the first stage is funnel, each further stage follows
\* its predecessor along funnel -> coder -> compiler -> debug -> compiler,
\* END is reached only from the compiler, and a compiler stage that left
\* errors while steps remain has debug as the next node, never the end of
\* the turn.
C1_StageOrder ==
    /\ stages # <<>> => stages[1] = "funnel"
    /\ \A i \in 1..(Len(stages) - 1) : <<stages[i], stages[i + 1]>> \in GraphEdges
    /\ pc = "END" => stages # <<>> /\ Last(stages) = "compiler"
    /\ pc \in Nodes => stages = <<>> \/ <<Last(stages), pc>> \in GraphEdges
    /\ (stages # <<>> /\ Last(stages) = "compiler" /\ ~v.res.valid /\ step < RecursionLimit)
         => pc = "debug"

\* C1 witness: a turn went through a repair and a second validation and
\* reached END.
C1_Witness == pc = "END" /\ Len(stages) >= 5 /\ stages[4] = "debug"

\* C2: END is reached only directly after a compiler stage whose
\* validate_tsx call returned valid = True with an empty errors list, and
\* the errors field of the session is empty there.
C2_DoneOnlyAfterValid ==
    pc = "END" =>
        /\ stages # <<>> /\ Last(stages) = "compiler"
        /\ v.path = "valid" /\ v.res.valid /\ v.res.errors = <<>>
        /\ ~Truthy(memory[1].errors)
        /\ memory[1].errors = ErrStr("")

\* C2 witness: END was reached.
C2_Witness == pc = "END" /\ v.res.valid

C4_ExhaustionReturnsError ==
    (Exhausted /\ Truthy(memory[1].errors)) =>
        /\ ~IsNone(ret)
        /\ ret[1].how = "return"
        /\ ret[1].text.kind = "message"

\* C4 witness: the limit was used up with diagnostics outstanding.
C4_Witness == Exhausted /\ Truthy(memory[1].errors) /\ ~v.res.valid

\* C5 as stated: when the recursion limit is used up, generate returns the
\* last candidate code.
C5_Original == Exhausted => ret = Some(Returned(CodeText(memory[1].code)))

\* C5 as amended: when the recursion limit is used up, generate returns the
\* text of the recursion error; the code of the last debug stage is kept in
\* the checkpoint only and is not what is returned.
C5_Amended ==
    Exhausted =>
        /\ ret = Some(Returned(GenerationError(RecursionMessage)))
        /\ memory[1].code \in LlmCodes
        /\ ret[1].text # CodeText(memory[1].code)

\* C5 witness: the limit was used up and the checkpoint holds a candidate
\* that was never validated.
C5_Witness == Exhausted /\ Last(stages) = "debug" /\ memory[1].code.fenced

\* C6: every started turn comes to an end (while it runs some step is
\* enabled, and it takes at most recursion_limit + 1 steps), and what a turn
\* hands back is always a returned text (a code text or an error message),
\* never an escaped exception.
C6_TurnTerminatesWithText ==
    /\ pc # "idle" => ENABLED Next
    /\ ticks <= RecursionLimit + 1
    /\ (turns > 0 /\ pc = "idle") =>
         /\ ~IsNone(ret)
         /\ ret[1].how = "return"
         /\ ret[1].text.kind \in {"code", "message"}

\* C6 witness: a turn in which a collaborator failed has returned a message.
C6_Witness ==
    /\ pc = "idle" /\ turns > 0 /\ ~IsNone(ret)
    /\ ret[1].text = GenerationError("retriever failed")

\* C7: for the result of every validate_tsx call, errors is empty iff valid.
C7_ErrorsEmptyIffValid ==
    hist.calls > 0 => ((v.res.errors = <<>>) <=> v.res.valid)

\* C7 witness: a call that ended in the except branch.
C7_Witness == v.path = "cannot_start" /\ ~v.res.valid /\ v.res.errors # <<>>

C9_Idempotent ==
    v.path \in {"valid", "diagnostics"} => hist.seen[v.src] = Some(v.res)

\* C9 witness: the compiler ran again on a source it had seen, after a call
\* on another source.
C9_Witness ==
    /\ v.path = "diagnostics" /\ hist.repeat
    /\ hist.prev # "" /\ hist.prev # v.src

\* C10: revise_code is never started on the result of a validation call
\* that failed for an infrastructure reason.
C10_NoRepairOnInfraFailure ==
    ~(stages # <<>> /\ Last(stages) = "debug" /\ v.path \in InfraPaths)

\* C11: a configuration error ends the turn where it is detected: with the
\* credentials missing no stage runs, with the catalog missing no stage runs
\* after funnel, and after a compiler stage that found no compiler no
\* further stage (debug, compiler) is started in the turn.
C11_ConfigErrorFatal ==
    /\ boot \in {"no_llm", "no_memory"} => stages = <<>>
    /\ boot = "no_catalog" => stages \in {<<>>, <<"funnel">>}
    /\ (Count(stages, "compiler") > 0 /\ v.path = "no_compiler")
         => (Last(stages) = "compiler" /\ Count(stages, "compiler") = 1)

\* A turn has ended in the funnel stage.
EndedInFunnel == pc = "idle" /\ stages = <<"funnel">>

\* C12: when the structured answer of the funnel stage fails to parse, the
\* turn ends there: funnel has run once, no coder, compiler or debug stage
\* has run, and generate returns an error text; no turn runs funnel twice.
C12_SelectionErrorAborts ==
    /\ Count(stages, "funnel") <= 1
    /\ (pc = "idle" /\ turns > 0 /\ ret = Some(Returned(GenerationError("OutputParserException"))))
         => stages = <<"funnel">>
    /\ EndedInFunnel =>
         /\ ~IsNone(ret)
         /\ ret[1].how = "return"
         /\ ret[1].text.kind = "message"

\* C12 witness: a turn ended in funnel with the parser's exception.
C12_Witness ==
    EndedInFunnel /\ ret = Some(Returned(GenerationError("OutputParserException")))

\* C13: every component of the session (components and
\* components_to_modify) has the name of a catalog entry as its title.
C13_ReferencesInCatalog ==
    ~IsNone(memory) =>
        /\ ~IsNone(memory[1].components) =>
             \A i \in 1..Len(memory[1].components[1]) :
                 memory[1].components[1][i] \in CatalogNames
        /\ ~IsNone(memory[1].components_to_modify) =>
             \A i \in 1..Len(memory[1].components_to_modify[1]) :
                 memory[1].components_to_modify[1][i] \in CatalogNames

\* The documents of the list a search_docs call returned, and of a cache.
ReturnedDocs(docs) == UNION {Range(docs[i].docs) : i \in DOMAIN docs}
CachedDocs(cache) == UNION {Range(cache[q]) : q \in DOMAIN cache}

\* A direct search_docs call has returned its list.
SearchReturned == s.phase = "idle" /\ s.calls > 0 /\ ~s.raised

\* C14: a search_docs call issues no retriever lookup for a query that a
\* completed earlier call included, and returns for it the list the cache
\* holds.
C14_CachedQueryNotLookedUp ==
    /\ \A q \in Range(s.lookups) : q \notin s.prior
    /\ SearchReturned =>
         \A q \in Range(s.queries) \cap s.prior :
             /\ q \in DOMAIN s.before
             /\ \E i \in DOMAIN s.docs : s.docs[i] = [nested |-> TRUE, docs |-> s.before[q]]

\* C14 witness: a call returned that named a query of an earlier completed
\* call next to a new one.
C14_Witness ==
    /\ SearchReturned
    /\ Range(s.queries) \cap s.prior # {}
    /\ s.lookups # <<>>

\* C15: while the lookups of a batch are in flight the cache is what it was
\* when the call started, and it still is after a batch in which a lookup
\* failed.
C15_CacheWrittenAfterBatch ==
    /\ s.phase = "gather" => docs_cache = s.before
    /\ s.raised => docs_cache = s.before

\* C15 witness: a batch of two lookups failed after one of them had returned.
C15_Witness == s.raised /\ s.returned # {} /\ Len(s.lookups) >= 2

\* C16: every document of a returned list, cached or retrieved, and every
\* document in docs_cache has at most 250 lines.
C16_SnippetsTruncated ==
    /\ \A doc \in ReturnedDocs(s.docs) : doc.lines <= MaxSnippetLines
    /\ \A doc \in CachedDocs(docs_cache) : doc.lines <= MaxSnippetLines

\* C16 witness: a call returned a cached and a retrieved document that were
\* both cut.
C16_Witness ==
    /\ SearchReturned
    /\ \E i, j \in DOMAIN s.docs :
         /\ s.docs[i].nested /\ \E doc \in Range(s.docs[i].docs) : doc.cut
         /\ ~s.docs[j].nested /\ \E doc \in Range(s.docs[j].docs) : doc.cut

\* C17: a search_docs call with is_dbg = True returns at most one document
\* per distinct query, cached or retrieved.
C17_NarrowYieldsOnePerQuery ==
    (SearchReturned /\ s.is_dbg) =>
        /\ Len(s.docs) <= Cardinality(Range(s.queries))
        /\ \A i \in DOMAIN s.docs : Len(s.docs[i].docs) <= 1

\* The lines of an annotated code that carry a marker, the lines appended
\* at its end, and the markers it carries in all.
AnnotatedLines(code_lines) ==
    Cardinality({i \in DOMAIN code_lines : code_lines[i].marks # <<>>})
AppendedLines(code_lines) ==
    Cardinality({i \in DOMAIN code_lines : code_lines[i].text = 0})

RECURSIVE MarkerCount(_)
MarkerCount(code_lines) ==
    IF code_lines = <<>> THEN 0
    ELSE Len(Head(code_lines).marks) + MarkerCount(Tail(code_lines))

\* The diagnostics of a list whose line is a line of a source of n lines,
\* and the others.
InBounds(D, n) == Cardinality({i \in DOMAIN D : D[i].location[1] \in 1..n})
OutOfBounds(D, n) == Cardinality({i \in DOMAIN D : D[i].location[1] \notin 1..n})

\* The direct debug_docs call has returned.
DebugDocsReturned == d.phase = "done" /\ ~d.raised

\* The last pass of the loop raised IndexError.
AnnotationRaised == d.phase = "done" /\ d.raised /\ IsNone(d.docs)

\* The markers of an annotated code that are equal to marker.
MarkersEqualTo(code_lines, marker) ==
    MarkerCount([i \in DOMAIN code_lines |->
                   [code_lines[i] EXCEPT !.marks = SelectSeq(@, LAMBDA k : k = marker)]])

C19_MarkerPlacement ==
    ~IsNone(d.last) =>
        LET L == d.last[1].location[1]
            marker == ErrorMarker(d.last[1])
        IN /\ ~AnnotationRaised
           /\ IF L \in 1..Len(d.prev_lines)
                THEN d.code_lines = [d.prev_lines EXCEPT ![L].marks = Append(@, marker)]
                ELSE d.code_lines = Append(d.prev_lines, [text |-> 0, marks |-> <<marker>>])

\* C20: a pass of the loop adds the generic query of the diagnostic's
\* message exactly when no term is extracted from the message and fewer
\* than three queries were collected before the pass; in every other case
\* it adds the extracted terms, each once, and nothing else.
C20_GenericQueryRule ==
    ~IsNone(d.last) =>
        LET message == d.last[1].message
            before == d.prev_queries
            added == SubSeq(d.queries, Len(before) + 1, Len(d.queries))
            generic == Matches(message) = {} /\ Len(before) < 3
        IN /\ Len(d.queries) >= Len(before)
           /\ SubSeq(d.queries, 1, Len(before)) = before
           /\ (added = <<GenericQuery(message)>>) <=> generic
           /\ ~generic =>
                /\ Range(added) = Matches(message)
                /\ Len(added) = Cardinality(Matches(message))

\* C20 witness: a pass for a message without terms added nothing because
\* three queries had been collected.
C20_Witness ==
    /\ ~IsNone(d.last)
    /\ Matches(d.last[1].message) = {}
    /\ Len(d.prev_queries) >= 3
    /\ d.queries = d.prev_queries

\* The number of places of a returned list that hold the document doc.
Occurrences(docs, doc) ==
    Cardinality({<<i, j>> \in (DOMAIN docs) \X (1..3) :
                    j <= Len(docs[i].docs) /\ docs[i].docs[j] = doc})

\* C21: in one search_docs call no query text is looked up twice, only
\* queries of the list are looked up, and the returned list holds no
\* document twice and one entry per cached query, however often a query
\* occurs in the list given.
C21_QueriesDeduplicated ==
    /\ Len(s.lookups) = Cardinality(Range(s.lookups))
    /\ Range(s.lookups) \subseteq Range(s.queries)
    /\ SearchReturned =>
         /\ \A doc \in ReturnedDocs(s.docs) : Occurrences(s.docs, doc) = 1
         /\ Cardinality({i \in DOMAIN s.docs : s.docs[i].nested})
              = Cardinality(Range(s.queries) \cap DOMAIN s.before)

\* C21 witness: a call whose list named one query twice returned what it
\* retrieved for it.
C21_Witness ==
    /\ SearchReturned
    /\ Len(s.queries) = 2 /\ s.queries[1] = s.queries[2]
    /\ Len(s.lookups) = 1
    /\ s.docs # <<>>

\* a is an initial part of b.
IsPrefix(a, b) == Len(a) <= Len(b) /\ SubSeq(b, 1, Len(a)) = a

\* A call of generate goes from loading the checkpoint to the entry point.
TurnStarts == pc = "idle" /\ pc' = "funnel"

\* C22: when a turn starts on a checkpoint of an earlier turn, the state the
\* graph is invoked on carries the code of the checkpoint and still holds
\* the request text the checkpoint held; of the two request fields at most
\* the one of the current request differs.
C22_PriorSessionCarried ==
    [][(TurnStarts /\ ~IsNone(memory)) =>
         /\ memory'[1].code = memory[1].code
         /\ IsPrefix(memory[1].query, memory'[1].query)
         /\ memory'[1].components = memory[1].components
         /\ memory'[1].errors = memory[1].errors]_vars

\* C23: once a turn has run a node the checkpointer holds a state; after a
\* compiler node it holds the code validated and the result of the
\* validation; the code a turn returns is the code of that state; and the
\* next call of generate invokes the graph on exactly the state held, with
\* the query replaced.
C23_SessionStored ==
    /\ []((stages # <<>>) => ~IsNone(memory))
    /\ []((stages # <<>> /\ Last(stages) = "compiler") =>
            /\ memory[1].code = Code(v.src, FALSE)
            /\ memory[1].errors = IF v.res.valid THEN ErrStr("") ELSE ErrList(v.res.errors))
    /\ []((pc = "idle" /\ ~IsNone(ret) /\ ret[1].text.kind = "code") =>
            ret[1].text = CodeText(memory[1].code))
    /\ [][(TurnStarts /\ ~IsNone(memory)) =>
            memory'[1] = [memory[1] EXCEPT !.query = memory'[1].query]]_vars
    /\ [][(pc \in {"END", "idle"} \/ pc' = "idle") => (pc' = "funnel" \/ memory' = memory)]_vars

\* C23 witness: the second turn starts on the state the first turn, which
\* failed in the debug node after a validation found diagnostics, ended
\* with.
C23_Witness ==
    /\ turns = 2 /\ pc = "funnel" /\ stages = <<>>
    /\ memory[1].code.body = "bad1"
    /\ memory[1].errors.tag = "list" /\ memory[1].errors.list # <<>>

\* C24: the funnel node of a turn that started on a checkpoint of an earlier
\* turn produces instructions and a list of components to modify; the
\* funnel node of a turn that found no checkpoint produces a list of
\* components.
C24_ModeFollowsPriorState ==
    (boot = "ok" /\ pc = "coder") =>
        IF turns >= 2
          THEN ~IsNone(memory[1].instructions) /\ ~IsNone(memory[1].components_to_modify)
          ELSE /\ ~IsNone(memory[1].components)
               /\ IsNone(memory[1].instructions) /\ IsNone(memory[1].components_to_modify)

\* C28: a call of generate that ran the graph and ended hands back code
\* under the key "result" of the response exactly when the turn reached END,
\* and a failed turn is answered under the key "error".
C28_FailureOnErrorChannel ==
    (boot = "ok" /\ pc = "idle" /\ ~IsNone(ret) /\ stages # <<>>) =>
        /\ (ret[1].text.kind = "code") <=> (generate_ui(ret[1]).key = "result")
        /\ (ret[1].text.kind # "code") <=> (generate_ui(ret[1]).key = "error")

\* The graph was invoked on a state that holds a follow-up request.
Iterative == ~IsNone(start) /\ ~IsNone(start[1].new_query)

\* C25: in a turn whose input holds a follow-up request, the query of the
\* state is the query of the input followed by the follow-up request once
\* a validation has succeeded, and the query of the input as long as none
\* has, however many validations failed before.
C25_RequestAppendedOnce ==
    (Iterative /\ ~IsNone(memory)) =>
        memory[1].query =
            IF stages # <<>> /\ Last(stages) = "compiler" /\ v.res.valid
              THEN start[1].query \o start[1].new_query[1]
              ELSE start[1].query

\* C25 witness: an iterative turn reached END at its second validation,
\* the first having failed, with the follow-up request appended.
C25_Witness ==
    /\ Iterative
    /\ pc = "END"
    /\ Count(stages, "compiler") = 2
    /\ memory[1].query = start[1].query \o start[1].new_query[1]
    /\ Len(memory[1].query) = Len(start[1].query) + 1

\* What validate_tsx returns when its compiler runs on a slot that holds
\* content.
ResultOn(content) == ParsedResult(_parse_errors(ParsedStream(TscRun(content))))

\* C26: of two validate_tsx calls on one validator that run at the same
\* time, each whose compiler ran returns the result of compiling what the
\* temp slot held at that moment; this is the call's own source text when
\* the other call neither wrote nor cleaned up between the call's write
\* and its compiler run.
C26_ResultFollowsSlot ==
    \A c \in Callers :
        (vc[c].pc \in {"ran", "done"} /\ ~IsNone(tsc_path)) =>
            /\ vc[c].res = ResultOn(vc[c].slot)
            /\ ~vc[c].disturbed => vc[c].slot = vc[c].src

\* C26 witness: both calls have returned; the compiler of one read the
\* source text the other had written, the compiler of the other found the
\* temp file deleted, and neither result is the result of the call's own
\* source text.
C26_Witness ==
    \E c \in Callers :
        /\ vc[c].pc = "done" /\ vc[Other(c)].pc = "done"
        /\ vc[c].path = "diagnostics" /\ vc[Other(c)].path = "valid"
        /\ vc[c].src # vc[Other(c)].src
        /\ vc[c].slot = vc[Other(c)].src
        /\ vc[c].res # ResultOn(vc[c].src)
        /\ vc[Other(c)].slot = NoFile
        /\ vc[Other(c)].res # ResultOn(vc[Other(c)].src)

\* C27: a request that is the first of its conversation finds no
\* checkpoint, and a checkpoint a request finds was written by a turn of
\* the same conversation.
C27_OneSessionPerConversation ==
    (boot = "ok" /\ sess.conv # NoConv) =>
        /\ sess.first => ~sess.found
        /\ sess.found => sess.writer = sess.conv

\* A line of compiler output under src/ of the form
\* path(line,col): error TSnnnn: message, and the entry reported for it.
IsSrcDiagnostic(ln) == ln.path = "src" /\ ln.err /\ ln.fmt
DiagnosticOf(ln) == Diagnostic(ln.line, ln.col, "TS" \o ln.code, ln.message)
Diagnostics(out) ==
    LET lines == SelectSeq(out, IsSrcDiagnostic)
    IN [i \in 1..Len(lines) |-> DiagnosticOf(lines[i])]

\* C29: the errors a validate_tsx call returns after a compiler run are the
\* entries of the well-formed src/ error lines of the compiler's output, in
\* the order of the output, and nothing else; valid is returned only when
\* the output holds no such line.
C29_ExactlySrcDiagnostics ==
    p.phase = "done" =>
        /\ p.res.errors \in {Diagnostics(p.stdout) \o Diagnostics(p.stderr),
                              Diagnostics(p.stderr) \o Diagnostics(p.stdout)}
        /\ p.res.valid => (Diagnostics(p.stdout) = <<>> /\ Diagnostics(p.stderr) = <<>>)

\* C30: every well-formed src/ error line the compiler wrote, on stdout or
\* on stderr, is among the errors the call returns.
C30_BothStreamsReported ==
    p.phase = "done" =>
        \A out \in {p.stdout, p.stderr} :
            \A i \in DOMAIN out :
                IsSrcDiagnostic(out[i]) => DiagnosticOf(out[i]) \in Range(p.res.errors)

FlatList(result) == [i \in 1..Len(result) |-> [nested |-> FALSE, docs |-> <<result[i]>>]]

\* C32: what search_docs returns for a batch of one query is the flat list
\* of the documents the cache holds for the query after the call, whether
\* the call retrieved them or found them cached.
C32_CachedEqualsFresh ==
    (SearchReturned /\ Len(s.queries) = 1) =>
        s.docs = FlatList(docs_cache[s.queries[1]])

\* C33: a validate_tsx call whose compiler ran returns valid only when
\* the process exited with status 0 (shown for a process that wrote its
\* report to stdout and nothing to stderr).
C33_ValidOnlyOnSuccessStatus ==
    (p.phase = "done" /\ p.stdout # <<>> /\ p.stderr = <<>> /\ p.res.valid) =>
        p.returncode = 0

\* C34: END and the debug node are reached only from a compiler node of
\* the same turn, END exactly when its validation returned valid and debug
\* exactly when it did not, on the code that validation was given,
\* whatever errors the state held when the turn started.
C34_ChoiceFollowsOwnValidate ==
    pc \in {"END", "debug"} =>
        /\ stages # <<>> /\ Last(stages) = "compiler"
        /\ (pc = "END") <=> v.res.valid
        /\ memory[1].code = Code(v.src, FALSE)
        /\ memory[1].errors = IF v.res.valid THEN ErrStr("") ELSE ErrList(v.res.errors)

\* C34 witness: a turn that started on a state with the diagnostics of an
\* earlier turn reached END after one validation, which returned valid.
C34_Witness ==
    /\ ~IsNone(start) /\ Truthy(start[1].errors)
    /\ pc = "END"
    /\ stages = <<"funnel", "coder", "compiler">>
    /\ v.res.valid /\ ~Truthy(memory[1].errors)

\* C35: over search_docs calls that may overlap, no query text is looked
\* up more than once and no cache entry is assigned a second time.
C35_OneLookupPerQuery ==
    /\ \A q \in SearchQueries : ov.lookups[q] <= 1
    /\ ~ov.replaced

====
